---- MODULE Spec2Model ----
(***************************************************************************)
(* Symbolic Recursion Engine 0.2: the symbolic memory (event store, log    *)
(* file, symbol frequency index, weighted symbol graph) of memory.py and   *)
(* the operations of mirror0.py that act on it (link commands, abstraction *)
(* attempts, symbol selection, the rule store, and the process of __main__ *)
(* in chat mode and in loop mode with its interrupt handler).              *)
(*                                                                         *)
(* Strings are sequences of one-character strings, so that truncation,     *)
(* filtering and concatenation are computed as the code computes them.     *)
(* A Python dict or Counter is a sequence of <<key, value>> pairs in       *)
(* insertion order (the order most_common breaks ties by).                 *)
(***************************************************************************)
EXTENDS Integers, Sequences, FiniteSets, TLC

VARIABLES
    events,         \* Memory.events: the in-memory event window
    symbol_counts,  \* Memory.symbol_counts: Counter symbol -> count
    graph,          \* Memory.graph: dict symbol -> Counter neighbour -> weight
    logfile,        \* the content of events_path (data/memory.jsonl)
    graphfile,      \* the content of graph_path (data/graph.json)
    now,            \* the wall clock read by now_ts()
    ret,            \* the last call made on the engine and what it returned
    rules,          \* Memory.rules: dict name -> {pattern, replace}
    rulesfile,      \* the content of rules_path (data/rules.json)
    seedfile,       \* the lines of seed_path (data/seed.txt)
    tick,           \* Observer.tick
    cfg,            \* the runtime settings of the configuration
    pc,             \* where the process of __main__ is
    cycle_no,       \* cycle_no of __main__ (loop mode)
    cpos,           \* where Mirror0.cycle is within the cycle
    thoughts        \* the thoughts the cycle has still to make

vars == <<events, symbol_counts, graph, logfile, graphfile, now, ret,
          rules, rulesfile, seedfile, tick, cfg, pc, cycle_no, cpos, thoughts>>

\* the state of the process of __main__ and of its cycle
proc == <<cfg, pc, cycle_no, cpos, thoughts>>

-----------------------------------------------------------------------------
(* Bounds of the model and constants of the program *)

MaxEvents == 2
MaxSymbolLen == 12
MaxTime == 4
MinPairSupport == 4
TopSymbolsN == 10
AbstractNbrN == 10
NeighborsN == 8
MaxTicks == 2
MaxInputLen == 3
MaxNormLen == 5

-----------------------------------------------------------------------------
(* Strings *)

\* F of the value of v: the loops below hand their running result on through
\* it, so that each turn works on a value and not on the expression that the
\* turns before have built
Bind(v, F(_)) == CHOOSE r \in {F(h) : h \in {v}} : TRUE

Min(a, b) == IF a < b THEN a ELSE b
Max(a, b) == IF a > b THEN a ELSE b

Letters ==
    {"a","b","c","d","e","f","g","h","i","j","k","l","m","n","o","p","q","r",
     "s","t","u","v","w","x","y","z","A","B","C","D","E","F","G","H","I","J",
     "K","L","M","N","O","P","Q","R","S","T","U","V","W","X","Y","Z"}
Digits == {"0","1","2","3","4","5","6","7","8","9"}

\* re.sub(r"[^A-Za-z0-9_\-\(\):]", "", s): the characters that survive
SymbolChars == Letters \cup Digits \cup {"_", "-", "(", ")", ":"}

\* TOKEN_RE = [A-Za-z0-9_\-]{1,64}
TokenChars == Letters \cup Digits \cup {"_", "-"}

SetMin(S) == CHOOSE m \in S : \A n \in S : m <= n
SetMax(S) == CHOOSE m \in S : \A n \in S : m >= n

\* str.strip()
Strip(s) ==
    LET inked == {i \in DOMAIN s : s[i] # " "}
    IN  IF inked = {} THEN <<>> ELSE SubSeq(s, SetMin(inked), SetMax(inked))

FilterChars(s, keep) == SelectSeq(s, LAMBDA c : c \in keep)

ReplaceSpaces(s) == [i \in DOMAIN s |-> IF s[i] = " " THEN "_" ELSE s[i]]

Void == <<"v","o","i","d">>

norm_symbol(s, max_len) ==
    LET s3 == FilterChars(ReplaceSpaces(Strip(s)), SymbolChars)
    IN  IF s3 = <<>> THEN Void ELSE SubSeq(s3, 1, Min(Len(s3), max_len))

-----------------------------------------------------------------------------
(* Python dict / Counter, as a sequence of <<key, value>> in insertion order *)

DKeys(d) == {d[i][1] : i \in DOMAIN d}

DGet(d, k, default) ==
    IF k \in DKeys(d) THEN d[CHOOSE i \in DOMAIN d : d[i][1] = k][2] ELSE default

DSet(d, k, v) ==
    IF k \in DKeys(d)
    THEN [i \in DOMAIN d |-> IF d[i][1] = k THEN <<k, v>> ELSE d[i]]
    ELSE Append(d, <<k, v>>)

\* Counter.__getitem__ with __missing__ = 0, and c[k] += n
CGet(c, k) == DGet(c, k, 0)
CAdd(c, k, n) == DSet(c, k, CGet(c, k) + n)

RemoveAt(s, i) == SubSeq(s, 1, i - 1) \o SubSeq(s, i + 1, Len(s))

\* Counter.most_common(n): by count descending, ties in insertion order
RECURSIVE most_common(_, _)
most_common(c, n) ==
    IF n <= 0 \/ c = <<>> THEN <<>>
    ELSE LET i == CHOOSE i \in DOMAIN c :
                    \A j \in DOMAIN c :
                        \/ c[j][2] < c[i][2]
                        \/ (c[j][2] = c[i][2] /\ j >= i)
         IN  <<c[i]>> \o most_common(RemoveAt(c, i), n - 1)

-----------------------------------------------------------------------------
(* Memory: the graph *)

\* self.graph[a][b] += n on a defaultdict(Counter)
GraphAdd(g, a, b, n) == DSet(g, a, CAdd(DGet(g, a, <<>>), b, n))

weight(g, a, b) == CGet(DGet(g, a, <<>>), b)

\* Faults of Memory.link: the mirror increment left out, the a == b guard
\* left out, the weight assigned instead of added
link_oneway(g, a, b, w) ==
    IF a = <<>> \/ b = <<>> \/ a = b THEN g ELSE GraphAdd(g, a, b, w)

link_noguard(g, a, b, w) ==
    IF a = <<>> \/ b = <<>> THEN g
    ELSE GraphAdd(GraphAdd(g, a, b, w), b, a, w)

link_assign(g, a, b, w) ==
    IF a = <<>> \/ b = <<>> \/ a = b THEN g
    ELSE DSet(DSet(g, a, DSet(DGet(g, a, <<>>), b, w)),
              b, DSet(DGet(DSet(g, a, DSet(DGet(g, a, <<>>), b, w)), b, <<>>), a, w))

\* Memory.link with an integer w
link(g, a, b, w) ==
    IF a = <<>> \/ b = <<>> \/ a = b THEN g
    ELSE GraphAdd(GraphAdd(g, a, b, w), b, a, w)

neighbors(g, a, top_n) ==
    IF a \notin DKeys(g) THEN <<>> ELSE most_common(DGet(g, a, <<>>), top_n)

top_symbols(counts, n) == most_common(counts, n)

-----------------------------------------------------------------------------
(* Events and their text *)

\* A text is the sequence of its bracketed mentions <<"[", s>> and of its
\* other word tokens <<"t", s>>; what separates them is left out.
B(s) == <<"[", s>>
T(s) == <<"t", s>>

RECURSIVE Pieces(_, _)
Pieces(text, tag) ==
    IF text = <<>> THEN <<>>
    ELSE IF Head(text)[1] = tag THEN <<Head(text)[2]>> \o Pieces(Tail(text), tag)
    ELSE Pieces(Tail(text), tag)

RECURSIVE DropEmpty(_)
DropEmpty(ss) ==
    IF ss = <<>> THEN <<>>
    ELSE IF Head(ss) = <<>> THEN DropEmpty(Tail(ss))
    ELSE <<Head(ss)>> \o DropEmpty(Tail(ss))

\* Memory.extract_symbols: SYMBOL_RE.findall, stripped, empty ones dropped
MemExtractSymbols(text) ==
    LET found == Pieces(text, "[")
    IN  DropEmpty([i \in DOMAIN found |-> Strip(found[i])])

\* mirror0.extract_symbols: bracketed mentions if any, else mined tokens
extract_symbols(text, max_len) ==
    LET found == Pieces(text, "[")
        syms  == [i \in DOMAIN found |-> norm_symbol(found[i], max_len)]
        toks  == Pieces(text, "t")
    IN  IF syms # <<>> THEN syms
        ELSE [i \in DOMAIN toks |-> norm_symbol(toks[i], max_len)]

MemEvent(ts, kind, text, meta) ==
    [ts |-> ts, kind |-> kind, text |-> text, meta |-> meta]

\* event.meta.get("symbols") if it is a list, else the symbols of the text
EventSymbols(ev) ==
    IF "symbols" \in DOMAIN ev.meta THEN ev.meta.symbols
    ELSE MemExtractSymbols(ev.text)

\* list(dict.fromkeys(syms))
RECURSIVE Uniq(_, _)
Uniq(syms, seen) ==
    IF syms = <<>> THEN <<>>
    ELSE IF Head(syms) \in seen THEN Uniq(Tail(syms), seen)
    ELSE <<Head(syms)>> \o Uniq(Tail(syms), seen \cup {Head(syms)})

RECURSIVE CountAll(_, _)
CountAll(counts, syms) ==
    IF syms = <<>> THEN counts
    ELSE Bind(CAdd(counts, Head(syms), 1), LAMBDA c : CountAll(c, Tail(syms)))

\* the double loop of _index_event over uniq[i], uniq[j], i < j: the inner
\* loop, from j on, and the outer loop, from i on
RECURSIVE CoLinkRow(_, _, _, _)
CoLinkRow(g, uniq, i, j) ==
    IF j > Len(uniq) THEN g
    ELSE Bind(GraphAdd(GraphAdd(g, uniq[i], uniq[j], 1), uniq[j], uniq[i], 1),
              LAMBDA h : CoLinkRow(h, uniq, i, j + 1))

RECURSIVE CoLink(_, _, _)
CoLink(g, uniq, i) ==
    IF i > Len(uniq) THEN g
    ELSE Bind(CoLinkRow(g, uniq, i, i + 1), LAMBDA h : CoLink(h, uniq, i + 1))

IndexCounts(counts, ev) == CountAll(counts, EventSymbols(ev))
IndexGraph(g, ev) == CoLink(g, Uniq(EventSymbols(ev), {}), 1)

RECURSIVE ReindexFrom(_, _)
ReindexFrom(counts, evs) ==
    IF evs = <<>> THEN counts
    ELSE Bind(CountAll(counts, EventSymbols(Head(evs))),
              LAMBDA c : ReindexFrom(c, Tail(evs)))

\* Fault of _reindex: the counter not reset before the events are counted,
\* as a second run then leaves it
_reindex_noreset(evs) == ReindexFrom(ReindexFrom(<<>>, evs), evs)

\* Memory._reindex: symbol_counts = Counter(), then every event counted
_reindex(evs) == ReindexFrom(<<>>, evs)

-----------------------------------------------------------------------------
(* The event log file *)

\* The file is a sequence of items: a serialized JSON object, bytes that are
\* no JSON value, or a line terminator.
NL == [t |-> "nl"]
Junk == [t |-> "junk"]
JsonObj(v) == [t |-> "obj", v |-> v]

\* json.dumps(event.__dict__)
Dumps(ev) ==
    JsonObj([ts |-> ev.ts, kind |-> ev.kind, text |-> ev.text,
             meta |-> [dict |-> TRUE, d |-> ev.meta]])

\* Fault of the write: the file opened with "w" instead of "a"
WriteLine_truncating(file, ev) == <<Dumps(ev), NL>>

\* f.write(json.dumps(...) + "\n") on a file opened for append
WriteLine(file, ev) == file \o <<Dumps(ev), NL>>

\* for line in f: the lines of the file, the last one perhaps unterminated
RECURSIVE SplitLines(_, _)
SplitLines(file, cur) ==
    IF file = <<>> THEN (IF cur = <<>> THEN <<>> ELSE <<cur>>)
    ELSE IF Head(file) = NL THEN <<cur>> \o SplitLines(Tail(file), <<>>)
    ELSE SplitLines(Tail(file), Append(cur, Head(file)))

\* json.loads(line) and the MemEvent built from it raise nothing
Parses(line) ==
    /\ Len(line) = 1
    /\ line[1].t = "obj"
    /\ ("meta" \in DOMAIN line[1].v => line[1].v.meta.dict)

\* obj.get(key, default) for each field
ParseLine(line) ==
    LET obj == line[1].v
    IN  MemEvent(IF "ts" \in DOMAIN obj THEN obj.ts ELSE 0,
                 IF "kind" \in DOMAIN obj THEN obj.kind ELSE "event",
                 IF "text" \in DOMAIN obj THEN obj.text ELSE <<>>,
                 IF "meta" \in DOMAIN obj THEN obj.meta.d ELSE <<>>)

\* Fault of the read loop: break instead of continue on a line that fails
RECURSIVE ReadLines_break(_)
ReadLines_break(lines) ==
    IF lines = <<>> THEN <<>>
    ELSE IF Head(lines) = <<>> THEN ReadLines_break(Tail(lines))
    ELSE IF Parses(Head(lines))
         THEN <<ParseLine(Head(lines))>> \o ReadLines_break(Tail(lines))
    ELSE <<>>

\* for line in f: blank lines and lines that fail to parse are skipped
RECURSIVE ReadLines(_)
ReadLines(lines) ==
    IF lines = <<>> THEN <<>>
    ELSE IF Head(lines) = <<>> THEN ReadLines(Tail(lines))
    ELSE IF Parses(Head(lines))
         THEN <<ParseLine(Head(lines))>> \o ReadLines(Tail(lines))
    ELSE ReadLines(Tail(lines))

\* s[-n:]
PySuffix(s, n) ==
    IF n = 0 THEN s ELSE SubSeq(s, Max(1, Len(s) - n + 1), Len(s))

\* Fault of the window: events[:max_events] instead of events[-max_events:]
Window_head(evs, max_events) ==
    IF Len(evs) > max_events THEN SubSeq(evs, 1, max_events) ELSE evs

\* if len(self.events) > self.max_events: keep the last max_events
Window(evs, max_events) ==
    IF Len(evs) > max_events THEN PySuffix(evs, max_events) ELSE evs

_load_events(file, max_events) ==
    Window(ReadLines(SplitLines(file, <<>>)), max_events)

\* The snapshot file is the sequence of its entries <<a, nbrs>>, nbrs the
\* sequence of the items <<b, w>> with w a JSON integer. An item whose weight
\* is no JSON integer is <<b, n, kind>>: the float n/2 ("halves"), a string
\* that is no numeral ("text"), or null ("null"); an entry whose value is no
\* mapping is <<a, <<>>, "list">>.
IsMapping(entry) == Len(entry) = 2

\* int(w): the integer itself, the float cut towards zero; ok is FALSE where
\* it raises (ValueError on the string, TypeError on null)
JsonInt(item) ==
    IF Len(item) = 2 THEN [ok |-> TRUE, n |-> item[2]]
    ELSE IF item[3] = "halves"
         THEN [ok |-> TRUE,
               n |-> IF item[2] >= 0 THEN item[2] \div 2
                     ELSE 0 - ((0 - item[2]) \div 2)]
    ELSE [ok |-> FALSE, n |-> 0]

\* self.graph[a][b] = int(w) for every item of the entry, an item on which
\* int raises left out
RECURSIVE LoadNbrs(_, _, _)
LoadNbrs(g, a, nbrs) ==
    IF nbrs = <<>> THEN g
    ELSE Bind(IF JsonInt(Head(nbrs)).ok
              THEN DSet(g, a, DSet(DGet(g, a, <<>>), Head(nbrs)[1],
                                   JsonInt(Head(nbrs)).n))
              ELSE g,
              LAMBDA h : LoadNbrs(h, a, Tail(nbrs)))

\* for a, nbrs in raw.items(): if isinstance(nbrs, dict)
RECURSIVE LoadEntries(_, _)
LoadEntries(g, raw) ==
    IF raw = <<>> THEN g
    ELSE Bind(IF IsMapping(Head(raw))
              THEN LoadNbrs(g, Head(raw)[1], Head(raw)[2])
              ELSE g,
              LAMBDA h : LoadEntries(h, Tail(raw)))

_load_graph(file) == LoadEntries(<<>>, file)

\* Memory.save_graph: serial[a] = dict(nbrs) for every key of the graph,
\* written over the file
save_graph(g) == [i \in DOMAIN g |-> <<g[i][1], g[i][2]>>]

-----------------------------------------------------------------------------
(* Memory: the rule store *)

\* del d[k]
DDel(d, k) ==
    IF k \in DKeys(d) THEN RemoveAt(d, CHOOSE i \in DOMAIN d : d[i][1] = k) ELSE d

Rule(pattern, replace) == [pattern |-> pattern, replace |-> replace]

\* Fault of set_rule: the rule added without a look at the names stored
set_rule_append(r, name, pattern, replace) ==
    Append(r, <<name, Rule(pattern, replace)>>)

\* Memory.set_rule: self.rules[name] = {"pattern": ..., "replace": ...}
set_rule(r, name, pattern, replace) == DSet(r, name, Rule(pattern, replace))

\* Memory.del_rule: the store afterwards and the value returned
del_rule(r, name) ==
    IF name \in DKeys(r) THEN [rules |-> DDel(r, name), ok |-> TRUE]
    ELSE [rules |-> r, ok |-> FALSE]

\* Memory._load_rules: the entries that are mappings with a pattern and a
\* replace, the others skipped
RECURSIVE LoadRules(_, _)
LoadRules(r, raw) ==
    IF raw = <<>> THEN r
    ELSE LET name == Head(raw)[1]
             rr   == Head(raw)[2]
         IN  LoadRules(IF {"pattern", "replace"} \subseteq DOMAIN rr
                       THEN DSet(r, name, Rule(rr.pattern, rr.replace))
                       ELSE r,
                       Tail(raw))

_load_rules(file) == LoadRules(<<>>, file)

\* Memory.save_rules: json.dump(self.rules), written over the file
save_rules(r) == [i \in DOMAIN r |-> <<r[i][1], Rule(r[i][2].pattern, r[i][2].replace)>>]

-----------------------------------------------------------------------------
(* Memory.append_event and Memory.__init__ *)

\* the state of a Memory after append_event(event, autosave)
append_event(evs, counts, g, file, ev, autosave) ==
    [events        |-> Window(Append(evs, ev), MaxEvents),
     symbol_counts |-> IndexCounts(counts, ev),
     graph         |-> IndexGraph(g, ev),
     logfile       |-> IF autosave THEN WriteLine(file, ev) ELSE file]

-----------------------------------------------------------------------------
(* Mirror0: link and abstraction *)

AbsPrefix == <<"a","b","s","(">>

\* norm_symbol(f"abs({a}_{b})", max_symbol_len)
AbsSymbol(a, b) ==
    norm_symbol(AbsPrefix \o a \o <<"_">> \o b \o <<")">>, MaxSymbolLen)

NoBest == [some |-> FALSE, a |-> <<>>, b |-> <<>>, w |-> 0]

\* Fault of the scan: the comparison turned round, the weakest pair is kept
RECURSIVE ScanNbrs_weakest(_, _, _)
ScanNbrs_weakest(best, a, nbrs) ==
    IF nbrs = <<>> THEN best
    ELSE LET b == Head(nbrs)[1]
             w == Head(nbrs)[2]
         IN  IF a = b THEN ScanNbrs_weakest(best, a, Tail(nbrs))
             ELSE IF ~best.some \/ w < best.w
                  THEN ScanNbrs_weakest([some |-> TRUE, a |-> a, b |-> b, w |-> w],
                                        a, Tail(nbrs))
             ELSE ScanNbrs_weakest(best, a, Tail(nbrs))

\* for b, w in neighbors(a, 10): keep the first pair of greatest weight
RECURSIVE ScanNbrs(_, _, _)
ScanNbrs(best, a, nbrs) ==
    IF nbrs = <<>> THEN best
    ELSE LET b == Head(nbrs)[1]
             w == Head(nbrs)[2]
         IN  IF a = b THEN ScanNbrs(best, a, Tail(nbrs))
             ELSE IF ~best.some \/ w > best.w
                  THEN ScanNbrs([some |-> TRUE, a |-> a, b |-> b, w |-> w],
                                a, Tail(nbrs))
             ELSE ScanNbrs(best, a, Tail(nbrs))

\* for a in tops
RECURSIVE ScanTops(_, _, _)
ScanTops(best, tops, g) ==
    IF tops = <<>> THEN best
    ELSE Bind(ScanNbrs(best, Head(tops)[1],
                       neighbors(g, Head(tops)[1], AbstractNbrN)),
              LAMBDA found : ScanTops(found, Tail(tops), g))

\* Fault of the attempt: the test of w against min_pair_support left out
Candidate_nomin(counts, g) ==
    LET tops == top_symbols(counts, TopSymbolsN)
        best == ScanTops(NoBest, tops, g)
    IN  IF Len(tops) < 2 \/ ~best.some
        THEN [found |-> FALSE, a |-> <<>>, b |-> <<>>, w |-> 0, abs |-> <<>>]
        ELSE [found |-> TRUE, a |-> best.a, b |-> best.b, w |-> best.w,
              abs |-> AbsSymbol(best.a, best.b)]

\* what act_abstract promotes: the pair, its support and its new symbol
Candidate(counts, g) ==
    LET tops == top_symbols(counts, TopSymbolsN)
        best == ScanTops(NoBest, tops, g)
    IN  IF Len(tops) < 2 \/ ~best.some \/ best.w < MinPairSupport
        THEN [found |-> FALSE, a |-> <<>>, b |-> <<>>, w |-> 0, abs |-> <<>>]
        ELSE [found |-> TRUE, a |-> best.a, b |-> best.b, w |-> best.w,
              abs |-> AbsSymbol(best.a, best.b)]

\* the two links of a promotion, each of weight max(2, w // 2)
Promote(g, c) ==
    LET d == Max(2, c.w \div 2)
    IN  link(link(g, c.abs, c.a, d), c.abs, c.b, d)

\* the graph after act_abstract
act_abstract(counts, g) ==
    LET c == Candidate(counts, g)
    IN  IF c.found THEN Promote(g, c) ELSE g

Word(w) == T(w)
WLink == <<"l","i","n","k">>
WAbstract == <<"a","b","s","t","r","a","c","t">>
WInsufficient == <<"i","n","s","u","f","f","i","c","i","e","n","t">>
WSupport == <<"s","u","p","p","o","r","t">>

\* the text act_link returns: link [a] <-> [b] (+w)
LinkText(a, b) == <<Word(WLink), B(a), B(b)>>

\* the text of an abstraction: abstract [abs] := [a] (x) [b] (support:w),
\* or, from execute, abstract: insufficient support
AbstractText(c) ==
    IF c.found THEN <<Word(WAbstract), B(c.abs), B(c.a), B(c.b), Word(WSupport)>>
    ELSE <<Word(WAbstract), Word(WInsufficient), Word(WSupport)>>

\* the action and insight events of interpret and cycle
EngineEvent(ts, kind, text) ==
    MemEvent(ts, kind, text, [symbols |-> extract_symbols(text, MaxSymbolLen)])

\* int(args[2]) in execute: a weight text is a numeral or not
IntText(n) == [int |-> TRUE, n |-> n]
BadText == [int |-> FALSE, n |-> 0]
ExecWeight(wtext) == IF wtext.int THEN wtext.n ELSE 1

-----------------------------------------------------------------------------
(* Mirror0: seeds and selection *)

PickTopN == 12
PickNbrN == 10
PopulationCap == 10

SeqSet(s) == {s[i] : i \in DOMAIN s}

Origin == <<"o","r","i","g","i","n">>

\* Mirror0.load_seed: the lines of the seed file that are not blank,
\* stripped and normalized
RECURSIVE load_seed(_)
load_seed(lines) ==
    IF lines = <<>> THEN <<>>
    ELSE IF Strip(Head(lines)) = <<>> THEN load_seed(Tail(lines))
    ELSE <<norm_symbol(Strip(Head(lines)), MaxSymbolLen)>> \o load_seed(Tail(lines))

\* what random.choice(population) can return, population holding each
\* symbol min(count, 10) times; the first symbol if the population is empty
Choices(pairs) ==
    LET population ==
            {pairs[i][1] : i \in {j \in DOMAIN pairs :
                                     Min(pairs[j][2], PopulationCap) > 0}}
    IN  IF population # {} THEN population ELSE {pairs[1][1]}

\* the branch taken when symbol_counts is not empty and random() < 0.75:
\* a frequent symbol, or (random() < 0.55) one of its neighbours
PickFromMemory(counts, g) ==
    LET top == top_symbols(counts, PickTopN)
    IN  UNION {
          LET nbrs == neighbors(g, base, PickNbrN)
          IN  {<<norm_symbol(base, MaxSymbolLen), "memory.top">>}
                \cup (IF nbrs = <<>> THEN {}
                      ELSE {<<norm_symbol(n, MaxSymbolLen), "memory.graph">> :
                              n \in Choices(nbrs)})
          : base \in Choices(top)}

\* Fault of the fallback: the default symbol offered beside the seeds
PickFromSeed_default(lines) ==
    {<<s, "seed">> : s \in SeqSet(load_seed(lines))} \cup {<<Origin, "default">>}

\* the fallback: a seed, or "origin" when there is no seed
PickFromSeed(lines) ==
    IF load_seed(lines) # <<>>
    THEN {<<s, "seed">> : s \in SeqSet(load_seed(lines))}
    ELSE {<<Origin, "default">>}

\* Mirror0.pick_symbol: every (symbol, source) it can return
pick_symbol(counts, g, lines) ==
    (IF counts # <<>> THEN PickFromMemory(counts, g) ELSE {})
        \cup PickFromSeed(lines)

-----------------------------------------------------------------------------
(* Mirror0: the text typed in chat, rewrite rules and commands *)

UpperSeq ==
    <<"A","B","C","D","E","F","G","H","I","J","K","L","M","N","O","P","Q","R",
      "S","T","U","V","W","X","Y","Z">>
LowerSeq ==
    <<"a","b","c","d","e","f","g","h","i","j","k","l","m","n","o","p","q","r",
      "s","t","u","v","w","x","y","z">>

\* str.lower
Lower(s) ==
    [i \in DOMAIN s |->
        IF \E k \in DOMAIN UpperSeq : UpperSeq[k] = s[i]
        THEN LowerSeq[CHOOSE k \in DOMAIN UpperSeq : UpperSeq[k] = s[i]]
        ELSE s[i]]

\* s[i:] (i counted from 0)
From(s, i) == SubSeq(s, i + 1, Len(s))

\* the longest prefix of s made of characters of keep
Run(s, keep) ==
    LET others == {i \in DOMAIN s : s[i] \notin keep}
    IN  IF others = {} THEN s ELSE SubSeq(s, 1, SetMin(others) - 1)

\* the k-th smallest element of a set of numbers
Nth(S, k) == CHOOSE m \in S : Cardinality({n \in S : n < m}) = k - 1

\* str.split(): the words between runs of spaces
Split(s) ==
    LET starts == {i \in DOMAIN s : s[i] # " " /\ (i = 1 \/ s[i - 1] = " ")}
        inked  == {s[i] : i \in DOMAIN s} \ {" "}
    IN  [k \in 1 .. Cardinality(starts) |->
            Run(SubSeq(s, Nth(starts, k), Len(s)), inked)]

\* re.sub(pattern, replace, text, flags=re.IGNORECASE) for a pattern that is
\* a literal word: every occurrence, left to right, whatever its case
RECURSIVE Sub(_, _, _)
Sub(pattern, replace, text) ==
    LET n    == Len(pattern)
        hits == {i \in 1 .. Len(text) - n + 1 :
                    Lower(SubSeq(text, i, i + n - 1)) = Lower(pattern)}
        i    == SetMin(hits)
    IN  IF hits = {} THEN text
        ELSE SubSeq(text, 1, i - 1) \o replace
                \o Sub(pattern, replace, From(text, i + n - 1))

\* re.sub raises re.error: a pattern whose groups are not closed does not
\* compile (the patterns of the model are literal words, or such a pattern)
Fails(pattern) ==
    Cardinality({i \in DOMAIN pattern : pattern[i] = "("})
        # Cardinality({i \in DOMAIN pattern : pattern[i] = ")"})

\* Fault of apply_rules: the pass ends at the first rule that fails
RECURSIVE apply_rules_abort(_, _)
apply_rules_abort(r, text) ==
    IF r = <<>> \/ Fails(Head(r)[2].pattern) THEN text
    ELSE Bind(Sub(Head(r)[2].pattern, Head(r)[2].replace, text),
              LAMBDA out : apply_rules_abort(Tail(r), out))

\* Mirror0.apply_rules: every rule in stored order, a failing one skipped
RECURSIVE apply_rules(_, _)
apply_rules(r, text) ==
    IF r = <<>> THEN text
    ELSE Bind(IF Fails(Head(r)[2].pattern) THEN text
              ELSE Sub(Head(r)[2].pattern, Head(r)[2].replace, text),
              LAMBDA out : apply_rules(Tail(r), out))

\* the text of a string as pieces: BRACKET_RE finds [content] where content
\* is a run of characters other than brackets, TOKEN_RE finds the runs of
\* token characters (of at most 64, which the texts of the model stay under)
NotBracket(s) == {s[i] : i \in DOMAIN s} \ {"[", "]"}

\* BRACKET_RE matches at i: [, a run of other characters, ]
BracketAt(s, i) ==
    LET inner == Run(From(s, i), NotBracket(s))
    IN  /\ s[i] = "["
        /\ inner # <<>>
        /\ i + Len(inner) + 1 <= Len(s)
        /\ s[i + Len(inner) + 1] = "]"

RECURSIVE TextPieces(_)
TextPieces(s) ==
    LET marks == {i \in DOMAIN s : s[i] \in TokenChars \/ BracketAt(s, i)}
        i     == SetMin(marks)
        inner == Run(From(s, i), NotBracket(s))
        tok   == Run(From(s, i - 1), TokenChars)
    IN  IF marks = {} THEN <<>>
        ELSE IF s[i] = "["
             THEN <<B(inner)>> \o TextPieces(From(s, i + Len(inner) + 1))
        ELSE <<T(tok)>> \o TextPieces(From(s, i - 1 + Len(tok)))

\* int(s) for a numeral with or without a sign; ok is FALSE where it raises
DigitSeq == <<"0","1","2","3","4","5","6","7","8","9">>
DigitVal(c) == (CHOOSE k \in DOMAIN DigitSeq : DigitSeq[k] = c) - 1

RECURSIVE NatVal(_, _)
NatVal(s, acc) ==
    IF s = <<>> THEN acc ELSE NatVal(Tail(s), 10 * acc + DigitVal(Head(s)))

PyInt(s) ==
    LET neg  == s # <<>> /\ Head(s) = "-"
        body == IF s # <<>> /\ Head(s) \in {"-", "+"} THEN Tail(s) ELSE s
    IN  IF body # <<>> /\ \A i \in DOMAIN body : body[i] \in Digits
        THEN [ok |-> TRUE, n |-> IF neg THEN 0 - NatVal(body, 0) ELSE NatVal(body, 0)]
        ELSE [ok |-> FALSE, n |-> 0]

\* str(n) for n >= 0
RECURSIVE IntStr(_)
IntStr(n) ==
    IF n < 10 THEN <<DigitSeq[n + 1]>>
    ELSE IntStr(n \div 10) \o <<DigitSeq[(n % 10) + 1]>>

WRule == <<"r","u","l","e">>
WSet == <<"s","e","t">>
WDel == <<"d","e","l">>
WShow == <<"s","h","o","w">>
WTop == <<"t","o","p">>
WNbr == <<"n","b","r">>

Action(op, args) == [op |-> op, args |-> args]
None == Action("none", <<>>)

\* the first index >= k of s that holds no space (Len(s) + 1 if none)
SkipSpaces(s, k) ==
    LET inked == {i \in k .. Len(s) : s[i] # " "}
    IN  IF inked = {} THEN Max(k, Len(s) + 1) ELSE SetMin(inked)

\* re.search(r"/(.+?)/\s*->\s*(.+)$", rest): the closing / at j is followed
\* by spaces, ->, spaces and at least one character
ArrowAfter(rest, j) ==
    LET k == SkipSpaces(rest, j + 1)
    IN  /\ k + 1 <= Len(rest)
        /\ rest[k] = "-"
        /\ rest[k + 1] = ">"
        /\ SkipSpaces(rest, k + 2) <= Len(rest)

RuleMatches(rest) ==
    {m \in (DOMAIN rest) \X (DOMAIN rest) :
        /\ rest[m[1]] = "/"
        /\ m[2] >= m[1] + 2
        /\ rest[m[2]] = "/"
        /\ ArrowAfter(rest, m[2])}

\* the leftmost match, its pattern group the shortest
RuleMatch(rest) ==
    CHOOSE m \in RuleMatches(rest) :
        \A n \in RuleMatches(rest) :
            m[1] < n[1] \/ (m[1] = n[1] /\ m[2] <= n[2])

\* parse_command, the branch of "rule set"
ParseRuleSet(t) ==
    LET raw  == Strip(From(t, Len(WRule) + 1 + Len(WSet) + 1))
        name == Split(raw)[1]
        rest == Strip(From(raw, Len(name)))
        m    == RuleMatch(rest)
        k    == SkipSpaces(rest, m[2] + 1)
    IN  IF raw = <<>> \/ RuleMatches(rest) = {} THEN None
        ELSE Action("rule_set",
                    <<name, SubSeq(rest, m[1] + 1, m[2] - 1),
                      From(rest, SkipSpaces(rest, k + 2) - 1)>>)

\* parse_command
parse_command(text) ==
    LET t     == Strip(text)
        parts == Split(t)
        n     == Len(parts)
        head  == Lower(parts[1])
        sub   == Lower(parts[2])
    IN  IF t = <<>> THEN None
        ELSE IF head = WLink /\ n >= 3
             THEN Action("link", <<parts[2], parts[3],
                                   IF n >= 4 THEN parts[4] ELSE <<"1">>>>)
        ELSE IF head = WShow /\ n >= 2 /\ sub = WTop
             THEN Action("show_top", <<>>)
        ELSE IF head = WShow /\ n >= 2 /\ sub = WNbr /\ n >= 3
             THEN Action("show_nbr", <<parts[3]>>)
        ELSE IF head = WRule /\ n >= 2 /\ sub = WDel /\ n >= 3
             THEN Action("rule_del", <<parts[3]>>)
        ELSE IF head = WRule /\ n >= 2 /\ sub = WSet
             THEN ParseRuleSet(t)
        ELSE IF head = WAbstract THEN Action("abstract", <<>>)
        ELSE None

\* the texts of act_rule_set and act_rule_del, whose symbols extract_symbols
\* reads off the characters
RuleSetText(name, pattern, replace) ==
    WRule \o <<" ">> \o WSet \o <<" ", "'">> \o name \o <<"'", ":", " ", "/">>
        \o pattern \o <<"/", " ", "-", ">", " ">> \o replace

RuleDelText(name, ok) ==
    WRule \o <<" ">> \o WDel \o <<" ", "'">> \o name \o <<"'", ":", " ">>
        \o (IF ok THEN <<"o","k">> ELSE <<"n","o","t"," ","f","o","u","n","d">>)

\* the texts of act_show_top and act_show_nbr: "top: (empty)",
\* "top: [s]:c, ..", "nbr [s]: (none)", "nbr [s]: [n]:w, .."
\* act_show_top and act_show_nbr list at most ten
ShowN == 10

ShowTopText(tops) ==
    IF tops = <<>> THEN <<Word(WTop), Word(<<"e","m","p","t","y">>)>>
    ELSE <<Word(WTop)>> \o [i \in DOMAIN tops |-> B(tops[i][1])]

ShowNbrText(sym, nbrs) ==
    <<Word(WNbr), B(sym)>> \o [i \in DOMAIN nbrs |-> B(nbrs[i][1])]

\* Mirror0.execute: the memory after the action, the text it returns, and
\* what del_rule or act_abstract found
Done(g, r, text, ok) == [graph |-> g, rules |-> r, text |-> text, ok |-> ok]

execute(action, counts, g, r) ==
    LET args == action.args
    IN  CASE action.op = "link" ->
               LET a == norm_symbol(args[1], MaxSymbolLen)
                   b == norm_symbol(args[2], MaxSymbolLen)
                   p == PyInt(args[3])
                   w == IF p.ok THEN p.n ELSE 1
               IN  Done(link(g, a, b, w), r, LinkText(a, b), FALSE)
          [] action.op = "rule_set" ->
               Done(g, set_rule(r, args[1], args[2], args[3]),
                    TextPieces(RuleSetText(args[1], args[2], args[3])), FALSE)
          [] action.op = "rule_del" ->
               LET d == del_rule(r, args[1])
               IN  Done(g, d.rules, TextPieces(RuleDelText(args[1], d.ok)), d.ok)
          [] action.op = "show_top" ->
               Done(g, r, ShowTopText(top_symbols(counts, ShowN)), FALSE)
          [] action.op = "show_nbr" ->
               LET sym == norm_symbol(args[1], MaxSymbolLen)
               IN  Done(g, r, ShowNbrText(sym, neighbors(g, sym, ShowN)), FALSE)
          [] action.op = "abstract" ->
               LET c == Candidate(counts, g)
               IN  Done(act_abstract(counts, g), r, AbstractText(c), c.found)

\* Observer.context: name[tick]::ctx-sig::Eentropy::Ttime, of which the engine
\* reads the part before the first "::"
ObserverLabel == <<"M","i","r","r","o","r","-","1">>
CtxHead(k) == ObserverLabel \o <<"[">> \o IntStr(k) \o <<"]">>
Context(k) == CtxHead(k) \o <<":", ":", "c", "t", "x">>

\* the four reflection templates of interpret
Bracketed(sym) == <<"[">> \o sym \o <<"]">>
Templates(chosen, ctx) ==
    {Bracketed(chosen) \o <<" ", ":", ":", " ">> \o ctx,
     <<"o","b","s","e","r","v","e">> \o <<"(">> \o ctx \o <<" ", "<", "-", " ">> \o Bracketed(chosen) \o <<")">>,
     <<"b","i","n","d">> \o <<"(">> \o Bracketed(chosen) \o <<",", " ">> \o ctx \o <<")">>,
     <<"t","r","a","c","e">> \o <<"(">> \o Bracketed(chosen) \o <<" ", "-", ">", " ">> \o ctx \o <<")">>}

\* what interpret returns: the memory it leaves, the events it made, the
\* command it executed (None for a reflection) and what the command found
Outcome(g, r, evs, cmd, ok) ==
    [graph |-> g, rules |-> r, evs |-> evs, cmd |-> cmd, ok |-> ok]

\* Fault of the event kind: what the user typed recorded as a reflection
ReflectKind_engine(source) == "reflection"

\* kind="reflection" if source != "user" else "user"
ReflectKind(source) == IF source = "user" THEN "user" ELSE "reflection"

\* interpret, from the reflection templates on: the reflection event and,
\* when random.random() < 0.55, a link of chosen to the context symbol
Reflect(chosen, source, g, r, k, ts) ==
    LET ctx_sym == norm_symbol(CtxHead(k), MaxSymbolLen)
        kind    == ReflectKind(source)
        a       == norm_symbol(chosen, MaxSymbolLen)
        b       == norm_symbol(ctx_sym, MaxSymbolLen)
    IN  {Outcome(IF coin THEN link(g, a, b, 1) ELSE g, r,
                 <<MemEvent(ts, kind, TextPieces(text),
                            [source |-> source,
                             symbols |-> extract_symbols(TextPieces(text), MaxSymbolLen)])>>
                    \o (IF coin THEN <<EngineEvent(ts, "action", LinkText(a, b))>>
                        ELSE <<>>),
                 None, FALSE) :
            text \in Templates(chosen, Context(k)), coin \in BOOLEAN}

\* Mirror0.interpret(raw) at observer tick k and clock ts
interpret(raw, counts, g, r, lines, k, ts) ==
    LET raw2 == apply_rules(r, Strip(raw))
        cmd  == parse_command(raw2)
        syms == extract_symbols(TextPieces(raw2), MaxSymbolLen)
    IN  IF Strip(raw) = <<>>
        THEN UNION {Reflect(p[1], p[2], g, r, k, ts) : p \in pick_symbol(counts, g, lines)}
        ELSE IF cmd # None
        THEN LET d == execute(cmd, counts, g, r)
             IN  {Outcome(d.graph, d.rules, <<EngineEvent(ts, "action", d.text)>>,
                          cmd, d.ok)}
        ELSE IF syms # <<>>
        THEN Reflect(norm_symbol(syms[1], MaxSymbolLen), "user", g, r, k, ts)
        ELSE UNION {Reflect(norm_symbol(p[1], MaxSymbolLen), "user", g, r, k, ts) :
                        p \in pick_symbol(counts, g, lines)}

-----------------------------------------------------------------------------
(* Inputs *)

X == <<"x">>
Y == <<"y">>
Z == <<"z">>
Empty == <<>>

\* a symbol two abstractions deep, as norm_symbol leaves abs(abs(x_y)_z) when
\* it cuts it short
AbsAbs == AbsPrefix \o AbsPrefix

\* a symbol that abs(..) maps to itself once truncated to MaxSymbolLen
AbsFix ==
    SubSeq(AbsPrefix \o AbsPrefix \o AbsPrefix \o AbsPrefix, 1,
           Min(MaxSymbolLen, 4 * Len(AbsPrefix)))

\* direct calls memory.link(a, b, w)
LinkCalls ==
    {<<X, Y, 3>>, <<X, Y, 2>>, <<X, Y, 0>>, <<X, Y, -1>>,
     <<X, X, 3>>, <<Empty, Y, 3>>}

\* the chat command: link a b w
ChatLinks ==
    {<<X, <<"y", "!">>, IntText(3)>>, <<X, <<"y", "!">>, IntText(0)>>,
     <<X, <<"y", "!">>, IntText(-2)>>, <<X, <<"y", "!">>, BadText>>,
     <<AbsAbs, X, IntText(3)>>, <<AbsFix, X, IntText(3)>>,
     <<Y, Y, IntText(3)>>}

\* events handed to append_event by a caller
EventInputs ==
    {MemEvent(0, "user", <<B(X), B(Y)>>, <<>>),
     MemEvent(0, "user", <<Word(WLink)>>, <<>>),
     MemEvent(0, "reflection", <<B(X)>>, [symbols |-> <<Y, Y, Z>>])}

\* log files found at startup: none; or one with a corrupt line, a blank
\* line, a record without all fields, a record whose meta is no mapping, a
\* whole record, and a last write that was cut short
OldEvent == MemEvent(0, "user", <<B(X), B(Y)>>, [symbols |-> <<X, Y>>])
OldLog ==
    <<Junk, NL, NL,
      JsonObj([text |-> <<B(Y), B(Z)>>]), NL,
      JsonObj([ts |-> 0, meta |-> [dict |-> FALSE]]), NL,
      Dumps(OldEvent), NL,
      Junk>>
InitLogs == {<<>>, OldLog}

\* a graph snapshot found at startup: x linked to nine symbols, weight 9 each
HubSeq == <<<<"a">>, <<"b">>, <<"c">>, <<"d">>, <<"e">>, <<"f">>, <<"g">>,
           <<"h">>, <<"i">>>>
HubWeight == 9
StarSnapshot ==
    <<<<X, [i \in DOMAIN HubSeq |-> <<HubSeq[i], HubWeight>>]>>>>
        \o [i \in DOMAIN HubSeq |-> <<HubSeq[i], <<<<X, HubWeight>>>>>>]

\* seed files: the one Mirror0.__init__ writes when there is none
\* (seed_fallback), and files of the user: two seeds, no seed, and lines
\* that norm_symbol changes
Str_symbolic == <<"s","y","m","b","o","l","i","c">>
Str_recursion == <<"r","e","c","u","r","s","i","o","n">>
Str_mirror == <<"m","i","r","r","o","r">>
Str_self == <<"s","e","l","f">>
Str_loop == <<"l","o","o","p">>
SeedFallback == <<Str_symbolic, Str_recursion, Origin, Str_mirror, Str_self, Str_loop>>
Alpha == <<"a","l","p","h","a">>
Beta == <<"b","e","t","a">>
SeedFiles ==
    {SeedFallback, <<Alpha, Beta>>, <<>>, <<<<" ">>>>,
     <<<<"b","e"," ","t","a"," ">>, <<"!","!">>, <<" "," ">>>>}

\* the runtime settings of DEFAULT_CFG
DefaultCfg ==
    [mode |-> "loop", thoughts_min |-> 2, thoughts_max |-> 6,
     auto_save_graph_every |-> 2, auto_save_rules_every |-> 5]

\* lines typed at the prompt of chat
ChatLines ==
    {<<"l","i","n","k"," ","a"," ","b"," ","3">>,
     <<"l","i","n","k"," ","a"," ","b">>,
     <<"r","u","l","e"," ","s","e","t"," ","r"," ","/","c","a","t","/"," ","-",">"," ","d","o","g">>,
     <<"r","u","l","e"," ","s","e","t"," ","r"," ","/","a","/"," ","-",">"," ","b">>,
     <<"r","u","l","e"," ","s","e","t"," ","q"," ","/","(","/"," ","-",">"," ","x">>,
     <<"r","u","l","e"," ","d","e","l"," ","r">>,
     <<"a","b","s","t","r","a","c","t">>,
     <<"s","h","o","w"," ","t","o","p">>,
     <<"s","h","o","w"," ","n","b","r"," ","a">>,
     <<"s","e","e"," ","[","c","a","t","]">>,
     <<"c","a","t">>,
     <<" ","E","x","i","t"," ">>}

\* graph snapshots found at startup: one whose edge x-y has a weight in one
\* direction only, and one with an entry that is no mapping and with weights
\* that are no integers (2.5, "abc", null) beside entries that are well formed
AsymSnapshot == <<<<X, <<<<Y, 5>>>>>>, <<Y, <<<<Z, 1>>>>>>>>
BadSnapshot ==
    <<<<X, <<<<Y, 5, "halves">>, <<Z, 0, "text">>, <<<<"a">>, 0, "null">>,
             <<<<"b">>, 4>>>>>>,
      <<Y, <<>>, "list">>,
      <<Z, <<<<X, 7>>>>>>>>
Snapshots == {<<>>, AsymSnapshot, BadSnapshot}

\* a rule file found at startup
RuleFile == <<<<X, Rule(X, Y)>>>>

\* a rule file whose second rule does not compile: p /c/ -> k, q /(/ -> x,
\* r /kat/ -> dog
TalkRules ==
    <<<<<<"p">>, Rule(<<"c">>, <<"k">>)>>,
      <<<<"q">>, Rule(<<"(">>, X)>>,
      <<<<"r">>, Rule(<<"k","a","t">>, <<"d","o","g">>)>>>>

\* lines that are no command
BadLines ==
    {<<"l","i","n","k"," ","a">>,
     <<"r","u","l","e"," ","s","e","t"," ","x">>,
     <<"s","h","o","w">>}

\* lines typed at the prompt of chat: the lines that are no command, queries,
\* a word, and rule commands, of which one sets a rule on the word "rule"
TalkLines ==
    BadLines \cup
    {<<"s","h","o","w"," ","t","o","p">>,
     <<"s","h","o","w"," ","n","b","r"," ","a">>,
     <<"c","a","t">>,
     <<"r","u","l","e"," ","s","e","t"," ","s"," ","/","r","u","l","e","/"," ","-",">"," ","x">>,
     <<"r","u","l","e"," ","d","e","l"," ","r">>}

\* configurations: chat mode, and loop mode with the cycle made short in
\* config.yaml
ChatCfg ==
    [mode |-> "chat", thoughts_min |-> 2, thoughts_max |-> 6,
     auto_save_graph_every |-> 2, auto_save_rules_every |-> 5]
LoopCfg ==
    [mode |-> "loop", thoughts_min |-> 1, thoughts_max |-> 2,
     auto_save_graph_every |-> 2, auto_save_rules_every |-> 1]

-----------------------------------------------------------------------------
(* The state machine *)

NoEvent == MemEvent(0, "none", <<>>, <<>>)

Ret(op, a, b, w, found, ev) ==
    [op |-> op, a |-> a, b |-> b, w |-> w, found |-> found, ev |-> ev]

\* Memory.__init__: _load_events, _load_graph, _reindex
Loaded(log, snapshot) ==
    /\ events = _load_events(log, MaxEvents)
    /\ graph = _load_graph(snapshot)
    /\ rules = _load_rules(rulesfile)
    /\ symbol_counts = _reindex(events)

\* Mirror0.__init__ and the start of __main__
Started ==
    /\ tick = 0
    /\ pc = "run"
    /\ cycle_no = 1
    /\ cpos = "begin"
    /\ thoughts = 0

Init ==
    /\ logfile \in InitLogs
    /\ graphfile = <<>>
    /\ rulesfile = <<>>
    /\ seedfile = SeedFallback
    /\ cfg = DefaultCfg
    /\ Loaded(logfile, graphfile)
    /\ Started
    /\ now = 1
    /\ ret = Ret("init", Empty, Empty, 0, FALSE, NoEvent)

Tick == now < MaxTime /\ now' = now + 1

\* memory.link(a, b, w) called with an integer weight
Link ==
    \E c \in LinkCalls :
        /\ Tick
        /\ graph' = link(graph, c[1], c[2], c[3])
        /\ ret' = Ret("link", c[1], c[2], c[3], FALSE, NoEvent)
        /\ UNCHANGED <<events, symbol_counts, logfile, graphfile>>
        /\ UNCHANGED <<rules, rulesfile, seedfile, tick, proc>>

\* the engine appends ev after an operation that left the graph as g
Store(g, ev) ==
    LET m == append_event(events, symbol_counts, g, logfile, ev, TRUE)
    IN  /\ events' = m.events
        /\ symbol_counts' = m.symbol_counts
        /\ graph' = m.graph
        /\ logfile' = m.logfile
        /\ UNCHANGED <<graphfile, rulesfile, seedfile>>

\* memory.append_event(ev, autosave=True)
AppendEvent ==
    \E e \in EventInputs :
        LET ev == MemEvent(now, e.kind, e.text, e.meta)
        IN  /\ Tick
            /\ Store(graph, ev)
            /\ ret' = Ret("append_event", Empty, Empty, 0, FALSE, ev)
            /\ UNCHANGED <<rules, tick, proc>>

\* chat: "link a b w" -> interpret -> execute -> act_link, event appended
ChatLink ==
    \E c \in ChatLinks :
        LET w  == ExecWeight(c[3])
            a  == norm_symbol(c[1], MaxSymbolLen)
            b  == norm_symbol(c[2], MaxSymbolLen)
            ev == EngineEvent(now, "action", LinkText(a, b))
        IN  /\ Tick
            /\ Store(link(graph, a, b, w), ev)
            /\ ret' = Ret("chat_link", a, b, w, FALSE, ev)
            /\ tick' = tick + 1
            /\ UNCHANGED <<rules, proc>>

\* chat: "abstract" -> interpret -> execute -> act_abstract, event appended
ChatAbstract ==
    LET c  == Candidate(symbol_counts, graph)
        ev == EngineEvent(now, "action", AbstractText(c))
    IN  /\ Tick
        /\ Store(act_abstract(symbol_counts, graph), ev)
        /\ ret' = Ret("abstract", c.a, c.b, c.w, c.found, ev)
        /\ tick' = tick + 1
        /\ UNCHANGED <<rules, proc>>

\* cycle: the abstraction attempt, and its insight event if it promoted
CycleAbstract ==
    LET c  == Candidate(symbol_counts, graph)
        ev == EngineEvent(now, "insight", AbstractText(c))
    IN  /\ Tick
        /\ IF c.found
           THEN Store(act_abstract(symbol_counts, graph), ev)
           ELSE UNCHANGED <<events, symbol_counts, graph, logfile, graphfile,
                            rulesfile, seedfile>>
        /\ ret' = Ret("abstract", c.a, c.b, c.w, c.found,
                      IF c.found THEN ev ELSE NoEvent)
        /\ UNCHANGED <<rules, tick, proc>>

\* the process ends and is started again: Memory.__init__ reads the files
Restart ==
    /\ Tick
    /\ events' = _load_events(logfile, MaxEvents)
    /\ graph' = _load_graph(graphfile)
    /\ rules' = _load_rules(rulesfile)
    /\ symbol_counts' = _reindex(events')
    /\ tick' = 0
    /\ pc' = "run"
    /\ cycle_no' = 1
    /\ cpos' = "begin"
    /\ thoughts' = 0
    /\ ret' = Ret("restart", Empty, Empty, 0, FALSE, NoEvent)
    /\ UNCHANGED <<logfile, graphfile, rulesfile, seedfile, cfg>>

PickRet(sym, source) ==
    [op |-> "pick", a |-> sym, b |-> Empty, w |-> 0, found |-> FALSE,
     ev |-> NoEvent, source |-> source]

\* mirror.pick_symbol()
Pick ==
    \E r \in pick_symbol(symbol_counts, graph, seedfile) :
        /\ ret' = PickRet(r[1], r[2])
        /\ UNCHANGED <<events, symbol_counts, graph, logfile, graphfile, now>>
        /\ UNCHANGED <<rules, rulesfile, seedfile, tick, proc>>

Next ==
    \/ Link
    \/ AppendEvent
    \/ ChatLink
    \/ ChatAbstract
    \/ CycleAbstract
    \/ Restart

Spec == Init /\ [][Next]_vars

\* the same engine started on a data directory that holds a graph snapshot
InitStar ==
    /\ logfile = <<>>
    /\ graphfile = StarSnapshot
    /\ rulesfile = <<>>
    /\ seedfile = SeedFallback
    /\ cfg = DefaultCfg
    /\ Loaded(logfile, graphfile)
    /\ Started
    /\ now = 1
    /\ ret = Ret("init", Empty, Empty, 0, FALSE, NoEvent)

SpecStar == (Init \/ InitStar) /\ [][Next]_vars

\* an engine started on one of the seed files, whose symbols are picked
\* while events are appended
InitPick ==
    /\ logfile \in InitLogs
    /\ graphfile = <<>>
    /\ rulesfile = <<>>
    /\ seedfile \in SeedFiles
    /\ cfg = DefaultCfg
    /\ Loaded(logfile, graphfile)
    /\ Started
    /\ now = 1
    /\ ret = Ret("init", Empty, Empty, 0, FALSE, NoEvent)

NextPick ==
    \/ Pick
    \/ AppendEvent

SpecPick == InitPick /\ [][NextPick]_vars

-----------------------------------------------------------------------------
(* The process of __main__: chat mode, loop mode, and the interrupt *)

RunRet(op, cmd, ok) ==
    [op |-> op, a |-> Empty, b |-> Empty, w |-> 0, found |-> ok,
     ev |-> NoEvent, cmd |-> cmd]

\* for ev in events: memory.append_event(ev, autosave=True), after interpret
\* left the graph as g
RECURSIVE AppendAll(_, _, _, _, _)
AppendAll(evs, counts, g, file, todo) ==
    IF todo = <<>>
    THEN [events |-> evs, symbol_counts |-> counts, graph |-> g, logfile |-> file]
    ELSE Bind(append_event(evs, counts, g, file, Head(todo), TRUE),
              LAMBDA m : AppendAll(m.events, m.symbol_counts, m.graph,
                                   m.logfile, Tail(todo)))

\* Observer.allow(text): a text that is not empty and not over 800 characters
\* (which no text of the model is)
allow(text) == text # <<>>

StoreAll(o, todo) ==
    LET m == AppendAll(events, symbol_counts, o.graph, logfile, todo)
    IN  /\ events' = m.events
        /\ symbol_counts' = m.symbol_counts
        /\ graph' = m.graph
        /\ logfile' = m.logfile
        /\ rules' = o.rules

\* chat: one turn of the while loop, up to the break on "exit" (the neighbour
\* peek that ends the turn reads the graph and changes nothing)
\* a turn of chat: the line typed, the command executed, what it found
ChatRet(line, cmd, ok) ==
    [op |-> "chat", a |-> Empty, b |-> Empty, w |-> 0, found |-> ok,
     ev |-> NoEvent, cmd |-> cmd, line |-> line]

ChatTurn(raw) ==
    LET user == Strip(raw)
    IN  /\ pc = "run"
        /\ cfg.mode = "chat"
        /\ IF Lower(user) = <<"e","x","i","t">>
           THEN /\ pc' = "exit"
                /\ ret' = RunRet("exit", None, FALSE)
                /\ UNCHANGED <<events, symbol_counts, graph, logfile, rules,
                               now, tick>>
           ELSE /\ Tick
                /\ tick < MaxTicks
                /\ tick' = tick + 1
                /\ \E o \in interpret(user, symbol_counts, graph, rules,
                                      seedfile, tick + 1, now) :
                    /\ StoreAll(o, o.evs)
                    /\ ret' = ChatRet(user, o.cmd, o.ok)
                    /\ pc' = pc
        /\ UNCHANGED <<graphfile, rulesfile, seedfile, cfg, cycle_no, cpos,
                       thoughts>>

Chat == \E raw \in ChatLines : ChatTurn(raw)

\* cycle: thoughts = random.randint(thoughts_min, thoughts_max)
CycleBegin ==
    /\ pc = "run"
    /\ cfg.mode # "chat"
    /\ cpos = "begin"
    /\ thoughts' \in cfg.thoughts_min .. cfg.thoughts_max
    /\ cpos' = "think"
    /\ ret' = RunRet("cycle", None, FALSE)
    /\ UNCHANGED <<events, symbol_counts, graph, logfile, graphfile, now, rules,
                   rulesfile, seedfile, tick, cfg, pc, cycle_no>>

\* cycle: one pass of the thoughts loop; interpret(), its events appended
\* where the observer allows them
Think ==
    /\ pc = "run"
    /\ cpos = "think"
    /\ thoughts > 0
    /\ Tick
    /\ tick < MaxTicks
    /\ tick' = tick + 1
    /\ \E o \in interpret(<<>>, symbol_counts, graph, rules, seedfile,
                          tick + 1, now) :
           /\ StoreAll(o, SelectSeq(o.evs, LAMBDA ev : allow(ev.text)))
           /\ ret' = RunRet("think", None, FALSE)
    /\ thoughts' = thoughts - 1
    /\ UNCHANGED <<graphfile, rulesfile, seedfile, cfg, pc, cycle_no, cpos>>

\* cycle: the occasional insight; with random.random() < insight_chance an
\* abstraction attempt, whose text, if it found a pair, is appended as an
\* insight event
Insight ==
    \E attempt \in BOOLEAN :
        LET c  == Candidate(symbol_counts, graph)
            ev == EngineEvent(now, "insight", AbstractText(c))
        IN  /\ pc = "run"
            /\ cpos = "think"
            /\ thoughts = 0
            /\ cpos' = "save_graph"
            /\ ret' = RunRet("insight", None, attempt /\ c.found)
            /\ IF attempt /\ c.found
               THEN /\ Tick
                    /\ StoreAll([graph |-> act_abstract(symbol_counts, graph),
                                 rules |-> rules], <<ev>>)
               ELSE UNCHANGED <<events, symbol_counts, graph, logfile, now, rules>>
            /\ UNCHANGED <<graphfile, rulesfile, seedfile, tick, cfg, pc,
                           cycle_no, thoughts>>

\* cycle: if cycle_no % auto_save_graph_every == 0: memory.save_graph()
AutoSaveGraph ==
    /\ pc = "run"
    /\ cpos = "save_graph"
    /\ cpos' = "save_rules"
    /\ graphfile' = IF cycle_no % cfg.auto_save_graph_every = 0
                    THEN save_graph(graph) ELSE graphfile
    /\ ret' = RunRet("autosave_graph", None, cycle_no % cfg.auto_save_graph_every = 0)
    /\ UNCHANGED <<events, symbol_counts, graph, logfile, now, rules, rulesfile,
                   seedfile, tick, cfg, pc, cycle_no, thoughts>>

\* cycle: if cycle_no % auto_save_rules_every == 0: memory.save_rules(); then
\* __main__ counts the cycle
AutoSaveRules ==
    /\ pc = "run"
    /\ cpos = "save_rules"
    /\ cpos' = "begin"
    /\ rulesfile' = IF cycle_no % cfg.auto_save_rules_every = 0
                    THEN save_rules(rules) ELSE rulesfile
    /\ cycle_no' = cycle_no + 1
    /\ ret' = RunRet("autosave_rules", None, cycle_no % cfg.auto_save_rules_every = 0)
    /\ UNCHANGED <<events, symbol_counts, graph, logfile, graphfile, now, rules,
                   seedfile, tick, cfg, pc, thoughts>>

\* KeyboardInterrupt is raised in chat() or in cycle() and, no handler of
\* theirs catching it (they catch Exception), reaches the except of __main__
Interrupt ==
    /\ pc = "run"
    /\ pc' = "except"
    /\ ret' = RunRet("interrupt", None, FALSE)
    /\ UNCHANGED <<events, symbol_counts, graph, logfile, graphfile, now, rules,
                   rulesfile, seedfile, tick, cfg, cycle_no, cpos, thoughts>>

\* except KeyboardInterrupt: mirror.memory.save_graph()
HandlerSaveGraph_skip ==
    /\ pc = "except"
    /\ pc' = "saved_graph"
    /\ ret' = RunRet("save_graph", None, FALSE)
    /\ UNCHANGED <<events, symbol_counts, graph, logfile, graphfile, now, rules,
                   rulesfile, seedfile, tick, cfg, cycle_no, cpos, thoughts>>

HandlerSaveGraph ==
    /\ pc = "except"
    /\ pc' = "saved_graph"
    /\ graphfile' = save_graph(graph)
    /\ ret' = RunRet("save_graph", None, FALSE)
    /\ UNCHANGED <<events, symbol_counts, graph, logfile, now, rules,
                   rulesfile, seedfile, tick, cfg, cycle_no, cpos, thoughts>>

\* except KeyboardInterrupt: mirror.memory.save_rules(), and the process ends
HandlerSaveRules ==
    /\ pc = "saved_graph"
    /\ pc' = "exit"
    /\ rulesfile' = save_rules(rules)
    /\ ret' = RunRet("save_rules", None, FALSE)
    /\ UNCHANGED <<events, symbol_counts, graph, logfile, graphfile, now, rules,
                   seedfile, tick, cfg, cycle_no, cpos, thoughts>>

InitRun ==
    /\ logfile = <<>>
    /\ graphfile = <<>>
    /\ \/ cfg = ChatCfg /\ rulesfile = <<>>
       \/ cfg = LoopCfg /\ rulesfile = RuleFile
    /\ seedfile = <<Alpha>>
    /\ Loaded(logfile, graphfile)
    /\ Started
    /\ now = 1
    /\ ret = Ret("init", Empty, Empty, 0, FALSE, NoEvent)

NextRun ==
    \/ Chat
    \/ CycleBegin
    \/ Think
    \/ Insight
    \/ AutoSaveGraph
    \/ AutoSaveRules
    \/ Interrupt
    \/ HandlerSaveGraph
    \/ HandlerSaveRules

SpecRun == InitRun /\ [][NextRun]_vars

\* the process in chat mode
InitChat == InitRun /\ cfg = ChatCfg

NextChat ==
    \/ Chat
    \/ Interrupt
    \/ HandlerSaveGraph
    \/ HandlerSaveRules

SpecChat == InitChat /\ [][NextChat]_vars

\* a chat session on a data directory that holds the rule file TalkRules
Talk == \E raw \in TalkLines : ChatTurn(raw)

InitTalk ==
    /\ logfile = <<>>
    /\ graphfile = <<>>
    /\ rulesfile = TalkRules
    /\ seedfile = <<Alpha>>
    /\ cfg = ChatCfg
    /\ Loaded(logfile, graphfile)
    /\ Started
    /\ now = 1
    /\ ret = Ret("init", Empty, Empty, 0, FALSE, NoEvent)

NextTalk == Talk

SpecTalk == InitTalk /\ [][NextTalk]_vars

\* norm_symbol(s, max_len) called on the strings of at most MaxInputLen
\* characters made of a letter, a space, a character that is filtered out
\* and characters of the notation, with max_len from 1 to MaxNormLen
NormAlphabet == {"a", " ", "!", "(", "_"}
NormInputs == UNION {[1 .. n -> NormAlphabet] : n \in 0 .. MaxInputLen}

NormRet(op, s, max_len, out) ==
    [op |-> op, a |-> s, b |-> out, w |-> max_len, found |-> FALSE,
     ev |-> NoEvent]

InitNorm ==
    /\ logfile = <<>>
    /\ graphfile = <<>>
    /\ rulesfile = <<>>
    /\ seedfile = SeedFallback
    /\ cfg = DefaultCfg
    /\ Loaded(logfile, graphfile)
    /\ Started
    /\ now = 1
    /\ \E s \in NormInputs, m \in 1 .. MaxNormLen :
          ret = NormRet("input", s, m, Empty)

Normalize ==
    /\ ret.op = "input"
    /\ ret' = NormRet("norm_symbol", ret.a, ret.w, norm_symbol(ret.a, ret.w))
    /\ UNCHANGED <<events, symbol_counts, graph, logfile, graphfile, now>>
    /\ UNCHANGED <<rules, rulesfile, seedfile, tick, proc>>

NextNorm == Normalize

SpecNorm == InitNorm /\ [][NextNorm]_vars

\* memory.save_graph()
SaveGraph ==
    /\ graphfile' = save_graph(graph)
    /\ ret' = Ret("save_graph", Empty, Empty, 0, FALSE, NoEvent)
    /\ UNCHANGED <<events, symbol_counts, graph, logfile, now>>
    /\ UNCHANGED <<rules, rulesfile, seedfile, tick, proc>>

\* an engine started on one of the snapshots, whose graph is linked, saved
\* and loaded again
InitSnap ==
    /\ logfile = <<>>
    /\ graphfile \in Snapshots
    /\ rulesfile = <<>>
    /\ seedfile = SeedFallback
    /\ cfg = DefaultCfg
    /\ Loaded(logfile, graphfile)
    /\ Started
    /\ now = 1
    /\ ret = Ret("init", Empty, Empty, 0, FALSE, NoEvent)

NextSnap ==
    \/ Link
    \/ SaveGraph
    \/ Restart

SpecSnap == InitSnap /\ [][NextSnap]_vars

\* the handler, once entered, runs to its end
FairRun == SpecRun /\ WF_vars(HandlerSaveGraph) /\ WF_vars(HandlerSaveRules)

-----------------------------------------------------------------------------
(* Properties *)

GraphSymbols(g) ==
    DKeys(g) \cup UNION {DKeys(g[i][2]) : i \in DOMAIN g}

Symmetric(g) ==
    \A a \in GraphSymbols(g), b \in GraphSymbols(g) :
        weight(g, a, b) = weight(g, b, a)

NoSelfLoop(g) == \A i \in DOMAIN g : g[i][1] \notin DKeys(g[i][2])

\* the step is a call that appended an event
Appended == ret'.ev # NoEvent

\* the step is memory.link(a, b, w) on distinct non-empty symbols
LinkedDistinct ==
    /\ ret'.op = "link"
    /\ ret'.a # Empty /\ ret'.b # Empty /\ ret'.a # ret'.b

\* neighbors(a) lists b with the weight of the edge
Reports(g, a, b) ==
    LET nbrs == neighbors(g, a, NeighborsN)
    IN  \E i \in DOMAIN nbrs : nbrs[i] = <<b, weight(g, a, b)>>

\* C1: after every link call, link command, event append and abstraction
\* attempt, weight(a,b) = weight(b,a) for every pair of symbols.
C1_Symmetry == Symmetric(graph)

C1_Witness ==
    /\ ret.op = "append_event"
    /\ weight(graph, X, Y) > 3
    /\ weight(graph, Y, X) > 3

\* C2: no graph[a] ever contains a itself, and link(x, x, w) changes nothing.
C2_NoSelfLoop ==
    /\ []NoSelfLoop(graph)
    /\ [][(ret'.op = "link" /\ ret'.a = ret'.b)
            => UNCHANGED <<events, symbol_counts, graph, logfile, graphfile>>]_vars

\* an abstraction attempt whose new symbol, once truncated, is its own operand
C2_Witness ==
    /\ ret.op = "abstract"
    /\ ret.found
    /\ AbsSymbol(ret.a, ret.b) = ret.a
    /\ weight(graph, ret.a, ret.b) > MinPairSupport

\* C3: the event window never holds more than max_events events, and after
\* each append it holds the last min(n, max_events) of the n events made of
\* the previous window followed by the appended event, in that order.
C3_Window ==
    /\ [](Len(events) <= MaxEvents)
    /\ [][Appended =>
            LET all == Append(events, ret'.ev)
                n   == Min(Len(all), MaxEvents)
            IN  /\ Len(events') = n
                /\ \A i \in 1..n : events'[i] = all[Len(all) - n + i]]_vars

\* more than max_events events appended to an empty store: the first is gone
C3_Witness ==
    /\ ret.ev # NoEvent
    /\ Len(logfile) = 2 * (MaxEvents + 1)
    /\ Len(events) = MaxEvents
    /\ events[1].ts = 2
    /\ events[MaxEvents].ts = now - 1

\* C4: reloading the persisted log yields the event sequence held in memory.
C4_RoundTrip == _load_events(logfile, MaxEvents) = events

ValidLines(lines) ==
    {i \in DOMAIN lines : lines[i] # <<>> /\ Parses(lines[i])}

\* C5: a load skips exactly the lines that fail to parse: the events loaded
\* are the valid lines of the file, in file order, kept to the last
\* max_events of them.
C5_LoadSkipsCorrupt ==
    [][ret'.op = "restart" =>
        LET lines == SplitLines(logfile, <<>>)
            valid == ValidLines(lines)
            n     == Min(Cardinality(valid), MaxEvents)
        IN  /\ Len(events') = n
            /\ \A j \in 1..n :
                 \E i \in valid :
                    /\ events'[j] = ParseLine(lines[i])
                    /\ Cardinality({k \in valid : k > i}) = n - j]_vars

\* a reload of a log with a corrupt line before valid ones
C5_Witness ==
    /\ ret.op = "restart"
    /\ Len(events) = MaxEvents
    /\ LET lines == SplitLines(logfile, <<>>)
       IN  \E i \in DOMAIN lines, j \in DOMAIN lines :
              /\ i < j
              /\ lines[i] # <<>> /\ ~Parses(lines[i])
              /\ Parses(lines[j])
              /\ ParseLine(lines[j]) = events[1]

\* C6: every append adds one record and its line end at the end of the log
\* file and leaves what the file held in place; no other step writes the file.
C6_AppendOnly ==
    [][/\ Len(logfile') >= Len(logfile)
       /\ SubSeq(logfile', 1, Len(logfile)) = logfile
       /\ IF Appended
          THEN /\ Len(logfile') = Len(logfile) + 2
               /\ logfile'[Len(logfile) + 1] = Dumps(ret'.ev)
               /\ logfile'[Len(logfile) + 2] = NL
          ELSE Len(logfile') = Len(logfile)]_vars

\* the window has dropped an event of this run that the file still holds
C6_Witness ==
    /\ ret.ev # NoEvent
    /\ Len(events) = MaxEvents
    /\ events[1].ts > 1
    /\ \E i \in DOMAIN logfile :
          /\ logfile[i].t = "obj"
          /\ "ts" \in DOMAIN logfile[i].v
          /\ logfile[i].v.ts = 1

\* C7, as stated: link(a, b, w) with w > 0 on distinct symbols adds w to the
\* weight in both directions, and neighbors(a) then reports b with it.
C7_Original ==
    [][(LinkedDistinct /\ ret'.w > 0) =>
        /\ weight(graph', ret'.a, ret'.b) = weight(graph, ret'.a, ret'.b) + ret'.w
        /\ weight(graph', ret'.b, ret'.a) = weight(graph, ret'.b, ret'.a) + ret'.w
        /\ Reports(graph', ret'.a, ret'.b)]_vars

\* C7, amended: link(a, b, w) with w > 0 on distinct symbols adds w to the
\* weight in both directions (so two links add w1 + w2), and neighbors(a)
\* reports b with that weight when a has at most top_n = 8 neighbours.
C7_Accumulate ==
    [][(LinkedDistinct /\ ret'.w > 0) =>
        /\ weight(graph', ret'.a, ret'.b) = weight(graph, ret'.a, ret'.b) + ret'.w
        /\ weight(graph', ret'.b, ret'.a) = weight(graph, ret'.b, ret'.a) + ret'.w
        /\ (Len(DGet(graph', ret'.a, <<>>)) <= NeighborsN
                => Reports(graph', ret'.a, ret'.b))]_vars

\* link(x, y, 3) then link(x, y, 2) on a fresh graph: neighbors(x) has (y, 5)
C7_Witness ==
    /\ ret = Ret("link", X, Y, 2, FALSE, NoEvent)
    /\ now = 3
    /\ logfile = <<>>
    /\ graph = <<<<X, <<<<Y, 5>>>>>>, <<Y, <<<<X, 5>>>>>>>>
    /\ neighbors(graph, X, NeighborsN) = <<<<Y, 5>>>>

\* C8: a link with a zero, negative or invalid weight on distinct symbols
\* adds exactly 1 in both directions, for memory.link and for the chat
\* command (whose action event adds 1 more for the co-occurrence).
C8_ClampsToOne ==
    [][(/\ ret'.op \in {"link", "chat_link"}
        /\ ret'.a # Empty /\ ret'.b # Empty /\ ret'.a # ret'.b
        /\ ret'.w <= 0) =>
        LET d == IF ret'.op = "chat_link" THEN 2 ELSE 1
        IN  /\ weight(graph', ret'.a, ret'.b) = weight(graph, ret'.a, ret'.b) + d
            /\ weight(graph', ret'.b, ret'.a) = weight(graph, ret'.b, ret'.a) + d]_vars

\* C9: within a process run no step lowers a weight, and no weight is below 0.
C9_Monotone ==
    [][ret'.op # "restart" =>
        \A a \in GraphSymbols(graph'), b \in GraphSymbols(graph') :
            /\ weight(graph', a, b) >= weight(graph, a, b)
            /\ weight(graph', a, b) >= 0]_vars

\* C10: an abstraction attempt that follows an attempt which promoted the
\* pair (a, b) does not promote that pair again.
C10_NoRepromotion ==
    [][(/\ ret.op = "abstract" /\ ret.found
        /\ ret'.op = "abstract")
        => ~(ret'.found /\ {ret'.a, ret'.b} = {ret.a, ret.b})]_vars

\* the number of abs( wrappers that open in a symbol
RECURSIVE Depth(_)
Depth(s) ==
    IF Len(s) < Len(AbsPrefix) THEN 0
    ELSE IF SubSeq(s, 1, Len(AbsPrefix)) = AbsPrefix
         THEN 1 + Depth(SubSeq(s, Len(AbsPrefix) + 1, Len(s)))
    ELSE Depth(Tail(s))

\* C11: no abstraction attempt puts a symbol nested more than 2 deep in the
\* graph: after an attempt, every symbol that was not in the graph before has
\* nesting depth at most 2.
C11_DepthBound ==
    [][ret'.op = "abstract" =>
        \A s \in GraphSymbols(graph') \ GraphSymbols(graph) : Depth(s) <= 2]_vars

\* C12: of two abstraction attempts in a row at most one promotes (the
\* smallest window and ceiling that limit anything: W = 2, ceiling 1).
C12_RateLimit ==
    [][(ret.op = "abstract" /\ ret.found /\ ret'.op = "abstract")
        => ~ret'.found]_vars

\* the step is an abstraction attempt
Attempt == ret'.op = "abstract"

\* (a, b) is the strongest edge of g: its support reaches min_pair_support
\* and every other edge is below min_pair_support
Strongest(g, a, b) ==
    /\ a # b
    /\ weight(g, a, b) >= MinPairSupport
    /\ \A u \in GraphSymbols(g), v \in GraphSymbols(g) :
          {u, v} # {a, b} => weight(g, u, v) < MinPairSupport

\* the symbols top_symbols(10) lists
TopSet(counts) ==
    LET tops == top_symbols(counts, TopSymbolsN)
    IN  {tops[i][1] : i \in DOMAIN tops}

\* the attempt picks the pair {a, b}; leaving the graph as g2, it links its
\* new symbol to a and to b (to the one it differs from, when truncation
\* makes it equal to the other) and changes no edge between other symbols
PromotesOnly(g, g2, a, b) ==
    LET abs == AbsSymbol(ret'.a, ret'.b)
    IN  /\ ret'.found
        /\ {ret'.a, ret'.b} = {a, b}
        /\ \A s \in {a, b} : s # abs => weight(g2, abs, s) > weight(g, abs, s)
        /\ \A u \in GraphSymbols(g2), v \in GraphSymbols(g2) :
              (u # abs /\ v # abs) => weight(g2, u, v) = weight(g, u, v)

NoSupport(g) ==
    \A u \in GraphSymbols(g), v \in GraphSymbols(g) :
        weight(g, u, v) < MinPairSupport

\* C14: when no pair has support >= min_pair_support an abstraction attempt
\* finds nothing and act_abstract leaves the graph as it is (the attempt of
\* cycle, which then appends no event, leaves events, index, graph and files
\* unchanged), and the rules as they are; and a pair that is promoted has support >= min_pair_support.
C14_NoneFound ==
    [][Attempt =>
        /\ NoSupport(graph) =>
              /\ ~ret'.found
              /\ act_abstract(symbol_counts, graph) = graph
              /\ ret'.ev = NoEvent =>
                    UNCHANGED <<events, symbol_counts, graph, logfile, graphfile>>
              /\ UNCHANGED <<rules, rulesfile>>
        /\ ret'.found => weight(graph, ret'.a, ret'.b) >= MinPairSupport]_vars

\* an attempt of cycle found nothing though two counted symbols are linked
C14_Witness ==
    /\ ret.op = "abstract"
    /\ ~ret.found
    /\ ret.ev = NoEvent
    /\ Len(symbol_counts) >= 2
    /\ \E a \in TopSet(symbol_counts), b \in TopSet(symbol_counts) :
          /\ weight(graph, a, b) > 0
          /\ weight(graph, a, b) < MinPairSupport
    /\ NoSupport(graph)

\* C15: a promotion of (a, b) with support w adds max(2, w div 2) to the
\* weight between the new symbol and a, and between it and b, in both
\* directions, and leaves every other weight, that of (a, b) too, unchanged.
C15_PromotionWeights ==
    [][(Attempt /\ ret'.found) =>
        LET g2  == act_abstract(symbol_counts, graph)
            a   == ret'.a
            b   == ret'.b
            abs == AbsSymbol(a, b)
            d   == Max(2, ret'.w \div 2)
        IN  /\ weight(g2, abs, a) = weight(graph, abs, a) + d
            /\ weight(g2, a, abs) = weight(graph, a, abs) + d
            /\ weight(g2, abs, b) = weight(graph, abs, b) + d
            /\ weight(g2, b, abs) = weight(graph, b, abs) + d
            /\ weight(g2, a, b) = weight(graph, a, b)
            /\ \A u \in GraphSymbols(g2), v \in GraphSymbols(g2) :
                  {u, v} \notin {{abs, a}, {abs, b}} =>
                      weight(g2, u, v) = weight(graph, u, v)]_vars

\* the seed vocabulary: the lines of the seed file that are not blank, as
\* symbols
SeedVocabulary(lines) ==
    {norm_symbol(Strip(lines[i]), MaxSymbolLen) :
        i \in {j \in DOMAIN lines : Strip(lines[j]) # <<>>}}

\* C16: with an empty frequency index and an empty graph, pick_symbol returns
\* a seed and can return each seed (alpha or beta, and both, for the seeds
\* alpha, beta); without seeds it returns "origin".
C16_SeedOnly ==
    /\ []((symbol_counts = <<>> /\ graph = <<>>) =>
            \A s \in SeedVocabulary(seedfile) :
                <<s, "seed">> \in pick_symbol(symbol_counts, graph, seedfile))
    /\ [][(ret'.op = "pick" /\ symbol_counts = <<>> /\ graph = <<>>) =>
            /\ SeedVocabulary(seedfile) # {} =>
                  ret'.a \in SeedVocabulary(seedfile) /\ ret'.source = "seed"
            /\ SeedVocabulary(seedfile) = {} =>
                  ret'.a = Origin /\ ret'.source = "default"
            /\ seedfile = <<Alpha, Beta>> => ret'.a \in {Alpha, Beta}]_vars

\* beta picked from the seeds alpha, beta after alpha
C16_Witness ==
    /\ ret = PickRet(Beta, "seed")
    /\ seedfile = <<Alpha, Beta>>
    /\ symbol_counts = <<>>
    /\ graph = <<>>

\* the symbols pick_symbol samples among when it takes a frequent symbol
TopCandidates(counts) ==
    {norm_symbol(s, MaxSymbolLen) : s \in Choices(top_symbols(counts, PickTopN))}

\* C17: a symbol sampled among the frequent symbols is not the symbol chosen
\* by the pick before it, unless it is the only candidate (the recent-history
\* window taken at its smallest, W = 1).
C17_AntiRepetition ==
    [][(/\ ret.op = "pick"
        /\ ret'.op = "pick"
        /\ ret'.source = "memory.top"
        /\ TopCandidates(symbol_counts) \ {ret.a} # {})
        => ret'.a # ret.a]_vars


\* the files hold the graph and the rules of the memory
Persisted ==
    /\ graphfile = save_graph(graph)
    /\ rulesfile = save_rules(rules)
    /\ _load_graph(graphfile) = graph
    /\ _load_rules(rulesfile) = rules

\* C18: an interrupt during the run, in chat mode or in loop mode, leads to
\* the exit of the process through save_graph and save_rules, the memory not
\* changing on the way: at that exit the graph file and the rules file hold
\* the graph and the rules the memory held when it was interrupted.
C18_InterruptSaves ==
    /\ [](pc = "exit" /\ ret.op = "save_rules" => Persisted)
    /\ [][pc # "run" => UNCHANGED <<graph, rules, events, symbol_counts>>]_vars
    /\ [][pc' = "exit" /\ ret'.op = "save_rules" => ret.op = "save_graph"]_vars
    /\ (pc = "except" ~> pc = "exit")

\* a chat session that made a link and set a rule, neither of them saved
\* before, was interrupted and has ended
C18_Witness ==
    /\ pc = "exit"
    /\ ret.op = "save_rules"
    /\ cfg.mode = "chat"
    /\ graph # <<>>
    /\ rules # <<>>
    /\ graphfile # <<>>
    /\ rulesfile # <<>>

\* C19: when a chat session ends by exit, the graph file and the rules file
\* hold every link made and every rule set or deleted during the session.
C19_ExitFlushes ==
    (pc = "exit" /\ ret.op = "exit") =>
        /\ _load_graph(graphfile) = graph
        /\ _load_rules(rulesfile) = rules

RuleNamed(r, name) == {i \in DOMAIN r : r[i][1] = name}

\* C20: set_rule(n, p, r) leaves exactly one rule named n, with pattern p and
\* replacement r, and every other rule as it was; del_rule(n) returns true
\* iff a rule named n was stored, leaves no rule named n, and changes
\* nothing when there was none.
C20_RuleStore ==
    [][(ret'.op = "chat" /\ ret'.cmd.op \in {"rule_set", "rule_del"}) =>
        LET n == ret'.cmd.args[1]
        IN  /\ ret'.cmd.op = "rule_set" =>
                  /\ Cardinality(RuleNamed(rules', n)) = 1
                  /\ DGet(rules', n, <<>>) = Rule(ret'.cmd.args[2], ret'.cmd.args[3])
                  /\ SeqSet(rules') \ {<<n, DGet(rules', n, <<>>)>>}
                        = {e \in SeqSet(rules) : e[1] # n}
            /\ ret'.cmd.op = "rule_del" =>
                  /\ ret'.found <=> RuleNamed(rules, n) # {}
                  /\ RuleNamed(rules', n) = {}
                  /\ RuleNamed(rules, n) = {} => rules' = rules]_vars

\* a rule named r was set while r was stored with another pattern: the line
\* "rule set r /cat/ -> dog", which the stored rule a -> b rewrote
C20_Witness ==
    /\ ret.op = "chat"
    /\ ret.cmd.op = "rule_set"
    /\ ret.cmd.args[2] = <<"c","b","t">>
    /\ rules = <<<<ret.cmd.args[1], Rule(<<"c","b","t">>, <<"d","o","g">>)>>>>

\* the rules whose pattern compiles
ValidRules(r) == SelectSeq(r, LAMBDA e : ~Fails(e[2].pattern))

\* the substitutions of the rules of r made one after the other on text
RECURSIVE Fold(_, _)
Fold(r, text) ==
    IF r = <<>> THEN text
    ELSE Fold(Tail(r), Sub(Head(r)[2].pattern, Head(r)[2].replace, text))

\* C21: apply_rules skips a rule whose pattern does not compile: in every
\* chat turn, whatever the rule store, what it makes of the typed line is
\* what the rules that compile give when applied in stored order, those
\* before and those after a failing rule.
C21_SkipsInvalid ==
    [][ret'.op = "chat" =>
        apply_rules(rules, ret'.line) = Fold(ValidRules(rules), ret'.line)]_vars

\* "cat" was typed while the rule store held a rule that does not compile
\* between c -> k and kat -> dog: the event made is about dog
C21_Witness ==
    /\ ret.op = "chat"
    /\ ret.line = <<"c","a","t">>
    /\ Len(rules) = 3
    /\ ~Fails(rules[1][2].pattern)
    /\ Fails(rules[2][2].pattern)
    /\ ~Fails(rules[3][2].pattern)
    /\ events # <<>>
    /\ events[1].kind = "user"
    /\ events[1].meta.symbols[1] = <<"d","o","g">>

\* C22: a line that is no valid command ("link a", "rule set x", "show") is
\* taken as text: the turn executes no command, leaves the rule store as it
\* is, and the first event it appends is a user event.
C22_BadInputIsText ==
    [][(ret'.op = "chat" /\ ret'.line \in BadLines) =>
        /\ ret'.cmd = None
        /\ rules' = rules
        /\ Len(logfile') > Len(logfile)
        /\ logfile'[Len(logfile) + 1].v.kind = "user"
        /\ logfile'[Len(logfile) + 1].v.meta.d.source = "user"]_vars

\* "link a" was typed in a session with stored rules: no command ran, the
\* rules are those of the file, and the event is a user event about "link"
C22_Witness ==
    /\ ret.op = "chat"
    /\ ret.line = <<"l","i","n","k"," ","a">>
    /\ ret.cmd = None
    /\ rules = _load_rules(TalkRules)
    /\ Len(events) = 1
    /\ events[1].kind = "user"
    /\ events[1].meta.symbols[1] = WLink

\* C27: a chat turn on "show top" or "show nbr <sym>" leaves every graph
\* weight and every symbol count as it was.
C27_QueriesReadOnly ==
    [][(ret'.op = "chat" /\ ret'.cmd.op \in {"show_top", "show_nbr"}) =>
        /\ \A a \in GraphSymbols(graph'), b \in GraphSymbols(graph') :
              weight(graph', a, b) = weight(graph, a, b)
        /\ \A c \in DKeys(symbol_counts') :
              CGet(symbol_counts', c) = CGet(symbol_counts, c)]_vars

\* the line that deletes the rule named n
RuleDelLine(n) == WRule \o <<" ">> \o WDel \o <<" ">> \o n

\* C28: in every state of a chat session, for every stored rule n, the line
\* "rule del n" is executed as the deletion of n and leaves no rule n.
C28_RulesDeletable ==
    \A n \in DKeys(rules) :
        \A o \in interpret(RuleDelLine(n), symbol_counts, graph, rules,
                           seedfile, tick + 1, now) :
            /\ o.cmd = Action("rule_del", <<n>>)
            /\ n \notin DKeys(o.rules)

\* the characters of s that the filter keeps: those of the allowed set, and
\* the spaces inside s, which have become underscores
Survivors(s) == {i \in DOMAIN Strip(s) : Strip(s)[i] \in SymbolChars \cup {" "}}

\* C23: for every string and every max length >= 1, norm_symbol returns a
\* string that is not empty, of at most max characters, all of them allowed;
\* it returns "void" when no character survives; and applied to its own
\* result it returns that result.
C23_Normalizer ==
    ret.op = "norm_symbol" =>
        /\ ret.b # <<>>
        /\ Len(ret.b) <= ret.w
        /\ \A i \in DOMAIN ret.b : ret.b[i] \in SymbolChars
        /\ Survivors(ret.a) = {} => ret.b = Void
        /\ norm_symbol(ret.b, ret.w) = ret.b

\* C24: the symbol frequency index kept by append_event is the index that
\* _reindex computes from the events held in the store, symbol by symbol,
\* also once the window has dropped events.
C24_IndexMatchesStore ==
    \A s \in DKeys(symbol_counts) \cup DKeys(_reindex(events)) :
        CGet(symbol_counts, s) = CGet(_reindex(events), s)

\* how many times the symbol lists of the events evs name s
Occurrences(evs, s) ==
    Cardinality({p \in UNION {{<<i, j>> : j \in DOMAIN EventSymbols(evs[i])} :
                                 i \in DOMAIN evs} :
                    EventSymbols(evs[p[1]])[p[2]] = s})

\* the symbols the events evs name
Named(evs) == UNION {SeqSet(EventSymbols(evs[i])) : i \in DOMAIN evs}

\* the weight the snapshot file holds for (a, b), 0 if it holds none
SnapWeight(file, a, b) ==
    LET rows == {i \in DOMAIN file : file[i][1] = a}
        nbrs == file[CHOOSE i \in rows : TRUE][2]
        cols == {j \in DOMAIN nbrs : nbrs[j][1] = b}
    IN  IF rows = {} \/ cols = {} THEN 0
        ELSE nbrs[CHOOSE j \in cols : TRUE][2]

\* C25: at startup _reindex leaves the events as loaded from the log and
\* every weight as loaded from the snapshot (the co-occurrences of the
\* logged events are not added again), counts each symbol as often as the
\* events name it, and run again gives the same index.
C25_ReindexPreserves ==
    [][ret'.op = "restart" =>
        /\ events' = _load_events(logfile, MaxEvents)
        /\ \A a \in GraphSymbols(graph') \cup GraphSymbols(graphfile),
              b \in GraphSymbols(graph') \cup GraphSymbols(graphfile) :
                weight(graph', a, b) = SnapWeight(graphfile, a, b)
        /\ \A c \in DKeys(symbol_counts') \cup Named(events') :
              CGet(symbol_counts', c) = Occurrences(events', c)
        /\ _reindex(events') = symbol_counts']_vars

\* a restart on a snapshot and a log whose event names x and y together:
\* both are counted, and the snapshot has no edge x-y, nor has the graph
C25_Witness ==
    /\ ret.op = "restart"
    /\ graphfile = StarSnapshot
    /\ events # <<>>
    /\ EventSymbols(events[1]) = <<X, Y>>
    /\ CGet(symbol_counts, X) > 0
    /\ CGet(symbol_counts, Y) > 0
    /\ weight(graph, X, Y) = 0
    /\ weight(graph, X, HubSeq[1]) = HubWeight

\* the (symbol, neighbour, weight) entries of a graph
Entries(g) ==
    UNION {{<<g[i][1], g[i][2][j][1], g[i][2][j][2]>> : j \in DOMAIN g[i][2]} :
              i \in DOMAIN g}

\* the well-formed entries of a snapshot file: those of the entries that are
\* mappings, with an integer weight
FileEntries(file) ==
    UNION {{<<file[i][1], file[i][2][j][1], file[i][2][j][2]>> :
               j \in {k \in DOMAIN file[i][2] : Len(file[i][2][k]) = 2}} :
              i \in {k \in DOMAIN file : Len(file[k]) = 2}}

\* C26: the graph saved and loaded into a fresh Memory has the entries of
\* the graph; a load gives the well-formed entries of the file as they are,
\* asymmetric ones too, and no entry for a malformed one (a weight that is no
\* integer, neighbours that are no mapping).
C26_SnapshotRoundTrip ==
    /\ [](Entries(_load_graph(save_graph(graph))) = Entries(graph))
    /\ [][ret'.op = "restart" => Entries(graph') = FileEntries(graphfile)]_vars
    /\ Entries(graph) = FileEntries(graphfile)

====
